---- MODULE Spec2Model ----
(***************************************************************************)
(* Build profile composition of electron.vite.config.ts.                   *)
(*                                                                         *)
(* The module under study is evaluated once per build invocation: it reads *)
(* process.env (NODE_ENV, VISUALIZER_MAIN, VISUALIZER_RENDERER) and the    *)
(* dependency names of package.json and hands one configuration object     *)
(* with the three profiles main, preload and renderer to defineConfig.     *)
(*                                                                         *)
(* State: the process environment, the package metadata, the environment   *)
(* the last evaluation read, the configuration it exported, and the        *)
(* promise that stands first in the renderer plugins: the evaluation       *)
(* exports it pending, and the import of the CSS plugin settles it in a    *)
(* later turn of the event loop.  The alias maps are fixed literals.       *)
(***************************************************************************)
EXTENDS Naturals, Sequences, FiniteSets, TLC

VARIABLES env, pkg, snapshot, config, cssPromise

vars == <<env, pkg, snapshot, config, cssPromise>>

(***************************************************************************)
(* Bounds of the model.                                                    *)
(***************************************************************************)
MaxDeps == 2

(***************************************************************************)
(* Inputs.                                                                 *)
(***************************************************************************)
EnvVars == {"NODE_ENV", "VISUALIZER_MAIN", "VISUALIZER_RENDERER"}

\* values a variable may hold when it is set; "" is a set but empty variable
EnvValues(k) ==
  IF k = "NODE_ENV"
    THEN {"", "development", "production", "test"}
    ELSE {"", "1", "false"}

\* process.env: a partial map, a variable that is absent is not in its domain
EnvMaps ==
  UNION { { e \in [D -> {"", "1", "false", "development", "production", "test"}] :
              \A k \in D : e[k] \in EnvValues(k) } : D \in SUBSET EnvVars }

NoEnv == [k \in {} |-> ""]

DepNames == {"axios", "zod", "electron"}

RECURSIVE SeqsUpTo(_, _)
SeqsUpTo(S, n) ==
  IF n = 0 THEN { <<>> }
  ELSE LET shorter == SeqsUpTo(S, n - 1)
       IN  shorter \cup { Append(s, x) : s \in shorter, x \in S }

IsInjective(s) == \A i, j \in 1..Len(s) : s[i] = s[j] => i = j

\* Object.keys(pkg.dependencies): the keys of an object, in insertion order,
\* each key once
PkgLists == { s \in SeqsUpTo(DepNames, MaxDeps) : IsInjective(s) }

Targets == {"main", "preload", "renderer"}

(***************************************************************************)
(* Path resolution.  resolve(p) of a relative path p joins it to the       *)
(* working directory, resolve(__dirname, p) to the directory of the file.  *)
(* An absolute path is kept as the pair <<root, relative path>>.           *)
(***************************************************************************)
cwd == "/project"

dirname == "/project"

resolve(p) == <<cwd, p>>

resolveFrom(dir, p) == <<dir, p>>

(***************************************************************************)
(* Environment-derived flags.                                              *)
(***************************************************************************)
\* variants of isDev: a misspelt mode name, and "anything but production"
isDevTypo(e) == "NODE_ENV" \in DOMAIN e /\ e["NODE_ENV"] = "dev"
isDevNotProd(e) == ~("NODE_ENV" \in DOMAIN e /\ e["NODE_ENV"] = "production")
isDev(e) == "NODE_ENV" \in DOMAIN e /\ e["NODE_ENV"] = "development"

isProd(e) == "NODE_ENV" \in DOMAIN e /\ e["NODE_ENV"] = "production"

toUpperCase(type) ==
  CASE type = "main" -> "MAIN"
    [] type = "renderer" -> "RENDERER"

Plugin(n, o, v) == [name |-> n, option |-> o, value |-> v]

visualizer == Plugin("visualizer", "open", "true")

react == Plugin("react", "tsDecorators", "true")

\* (await import('@tailwindcss/vite')).default(): the plugin the import yields
tailwindcss == Plugin("tailwindcss", "", "")

\* (async () => ...)(): the promise the immediately invoked async function
\* returns; this, not the plugin, is the element of the plugins array
tailwindImport == Plugin("Promise", "import", "@tailwindcss/vite")

\* states of that promise
NoPromise == [state |-> "none", value |-> << >>]

Pending == [state |-> "pending", value |-> << >>]

Fulfilled(v) == [state |-> "fulfilled", value |-> <<v>>]

Rejected == [state |-> "rejected", value |-> << >>]

CodeInspectorPlugin == Plugin("CodeInspectorPlugin", "bundler", "vite")

\* variant of visualizerPlugin that reads the main variable for every target
visualizerPluginLeak(e, type) ==
  IF "VISUALIZER_MAIN" \in DOMAIN e /\ e["VISUALIZER_MAIN"] # ""
    THEN <<visualizer>> ELSE <<>>
\* process.env[...] ? [visualizer({ open: true })] : []
\* an absent variable is undefined and an empty one is "", both falsy
visualizerPlugin(e, type) ==
  LET k == "VISUALIZER_" \o toUpperCase(type)
  IN  IF k \in DOMAIN e /\ e[k] # "" THEN <<visualizer>> ELSE <<>>

(***************************************************************************)
(* Alias declarations as written, in order: <<prefix, relative path>>.     *)
(***************************************************************************)
mainAlias ==
  << <<"@main", "src/main">>,
     <<"@types", "src/renderer/src/types">>,
     <<"@shared", "packages/shared">>,
     <<"@logger", "src/main/services/LoggerService">>,
     <<"@mcp-trace/trace-core", "packages/mcp-trace/trace-core">>,
     <<"@mcp-trace/trace-node", "packages/mcp-trace/trace-node">> >>

preloadAlias ==
  << <<"@shared", "packages/shared">>,
     <<"@mcp-trace/trace-core", "packages/mcp-trace/trace-core">> >>

rendererAlias ==
  << <<"@renderer", "src/renderer/src">>,
     <<"@shared", "packages/shared">>,
     <<"@types", "src/renderer/src/types">>,
     <<"@logger", "src/renderer/src/services/LoggerService">>,
     <<"@cherrystudio/ai-core", "packages/aiCore/src">>,
     <<"@cherrystudio/extension-table-plus", "packages/extension-table-plus/src">> >>

\* Evaluation of the object literal alias: { prefix: resolve(path), ... }.
\* There is no check of the keys: a key written twice keeps the value of
\* its last occurrence.
alias(decl) ==
  [ k \in { decl[i][1] : i \in 1..Len(decl) } |->
      LET last == CHOOSE i \in 1..Len(decl) :
                    /\ decl[i][1] = k
                    /\ \A j \in (i + 1)..Len(decl) : decl[j][1] # k
      IN  resolve(decl[last][2]) ]

(***************************************************************************)
(* The pieces of the three profiles.                                       *)
(***************************************************************************)
\* ['bufferutil', 'utf-8-validate', 'electron', ...Object.keys(pkg.dependencies)]
external(deps) == <<"bufferutil", "utf-8-validate", "electron">> \o deps

\* variant of esbuild that never strips
esbuildKeepsComments(prod) == {}
\* isProd ? { legalComments: 'none' } : {}   as a set of <<key, value>>
esbuild(prod) == IF prod THEN { <<"legalComments", "none">> } ELSE {}

\* variant of rendererPlugins with the two conditional plugins exchanged
rendererPluginsSwapped(e) ==
  <<tailwindImport, react>>
    \o visualizerPlugin(e, "renderer")
    \o (IF isDev(e) THEN <<CodeInspectorPlugin>> ELSE <<>>)
rendererPlugins(e) ==
  <<tailwindImport, react>>
    \o (IF isDev(e) THEN <<CodeInspectorPlugin>> ELSE <<>>)
    \o visualizerPlugin(e, "renderer")

\* variant of input without the trace window
inputNoTrace ==
  [ index |-> resolveFrom(dirname, "src/renderer/index.html"),
    miniWindow |-> resolveFrom(dirname, "src/renderer/miniWindow.html"),
    selectionToolbar |-> resolveFrom(dirname, "src/renderer/selectionToolbar.html"),
    selectionAction |-> resolveFrom(dirname, "src/renderer/selectionAction.html") ]
input ==
  [ index |-> resolveFrom(dirname, "src/renderer/index.html"),
    miniWindow |-> resolveFrom(dirname, "src/renderer/miniWindow.html"),
    selectionToolbar |-> resolveFrom(dirname, "src/renderer/selectionToolbar.html"),
    selectionAction |-> resolveFrom(dirname, "src/renderer/selectionAction.html"),
    traceWindow |-> resolveFrom(dirname, "src/renderer/traceWindow.html") ]

\* variant of mainOptimizeDeps keyed on the wrong flag
mainOptimizeDepsProd(e) == [noDiscovery |-> isProd(e)]
mainOptimizeDeps(e) == [noDiscovery |-> isDev(e)]

main(e, deps) ==
  [ plugins |-> visualizerPlugin(e, "main"),
    resolve |-> [alias |-> alias(mainAlias)],
    build |->
      [ rollupOptions |->
          [ external |-> external(deps),
            output |-> [manualChunks |-> "undefined",
                        inlineDynamicImports |-> TRUE] ],
        sourcemap |-> isDev(e) ],
    esbuild |-> esbuild(isProd(e)),
    optimizeDeps |-> mainOptimizeDeps(e) ]

preload(e) ==
  [ plugins |-> <<react>>,
    resolve |-> [alias |-> alias(preloadAlias)],
    build |-> [sourcemap |-> isDev(e)] ]

renderer(e) ==
  [ plugins |-> rendererPlugins(e),
    resolve |-> [alias |-> alias(rendererAlias)],
    optimizeDeps |->
      [ exclude |-> <<"pyodide">>,
        esbuildOptions |-> [target |-> "esnext"] ],
    worker |-> [format |-> "es"],
    build |->
      [ target |-> "esnext",
        rollupOptions |-> [input |-> input] ],
    esbuild |-> esbuild(isProd(e)) ]

\* the object handed to defineConfig
defineConfig(e, deps) ==
  [ main |-> main(e, deps),
    preload |-> preload(e),
    renderer |-> renderer(e) ]

(***************************************************************************)
(* Behaviour.                                                              *)
(***************************************************************************)
NoConfig == [k \in {} |-> ""]

Init ==
  /\ env \in EnvMaps
  /\ pkg \in PkgLists
  /\ snapshot = NoEnv
  /\ config = NoConfig
  /\ cssPromise = NoPromise

\* the environment of the process changes between build invocations
SetEnv ==
  \E k \in EnvVars : \E v \in EnvValues(k) :
    /\ env' = [ j \in DOMAIN env \cup {k} |-> IF j = k THEN v ELSE env[j] ]
    /\ UNCHANGED <<pkg, snapshot, config, cssPromise>>

UnsetEnv ==
  \E k \in DOMAIN env :
    /\ env' = [ j \in DOMAIN env \ {k} |-> env[j] ]
    /\ UNCHANGED <<pkg, snapshot, config, cssPromise>>

\* one build invocation: the module is evaluated synchronously and exports
\* its configuration; the async function has run up to its await, so the
\* promise in renderer.plugins is pending and no CSS plugin exists yet
LoadConfig ==
  /\ snapshot' = env
  /\ config' = defineConfig(env, pkg)
  /\ cssPromise' = Pending
  /\ UNCHANGED <<env, pkg>>

\* a later turn of the event loop: the import has resolved, default() is
\* called and the promise is fulfilled with the plugin
ImportFulfilled ==
  /\ cssPromise.state = "pending"
  /\ cssPromise' = Fulfilled(tailwindcss)
  /\ UNCHANGED <<env, pkg, snapshot, config>>

\* a later turn of the event loop: the import (or default()) has failed and
\* the promise is rejected; the exported configuration stays as it is
ImportRejected ==
  /\ cssPromise.state = "pending"
  /\ cssPromise' = Rejected
  /\ UNCHANGED <<env, pkg, snapshot, config>>

Next == SetEnv \/ UnsetEnv \/ LoadConfig \/ ImportFulfilled \/ ImportRejected

Spec == Init /\ [][Next]_vars

(***************************************************************************)
(* Vocabulary of the properties, in terms of what the last evaluation read *)
(* and exported.                                                           *)
(***************************************************************************)
Loaded == DOMAIN config # {}

SnapIs(k, v) == k \in DOMAIN snapshot /\ snapshot[k] = v

SnapDev == SnapIs("NODE_ENV", "development")

SnapProd == SnapIs("NODE_ENV", "production")

\* a visualizer flag is enabled when its variable is set to a non-empty string
SnapFlag(k) == k \in DOMAIN snapshot /\ snapshot[k] # ""

SourceMapOn(p) ==
  /\ "build" \in DOMAIN p
  /\ "sourcemap" \in DOMAIN p.build
  /\ p.build.sourcemap = TRUE

SourceMapDeclared(p) == "build" \in DOMAIN p /\ "sourcemap" \in DOMAIN p.build

StripsLegalComments(p) == <<"legalComments", "none">> \in p.esbuild

NoDiscoveryOn(p) ==
  /\ "optimizeDeps" \in DOMAIN p
  /\ "noDiscovery" \in DOMAIN p.optimizeDeps
  /\ p.optimizeDeps.noDiscovery = TRUE

Has(plugins, n) == \E i \in 1..Len(plugins) : plugins[i].name = n

StaticExternal == {"bufferutil", "utf-8-validate", "electron"}

Pages == {"index", "miniWindow", "selectionToolbar", "selectionAction", "traceWindow"}

\* the two snapshots agree on every variable other than k
AgreeExceptOn(s1, s2, k) ==
  \A j \in EnvVars \ {k} :
    /\ j \in DOMAIN s1 <=> j \in DOMAIN s2
    /\ j \in DOMAIN s1 => s1[j] = s2[j]

(***************************************************************************)
(* C1 as stated: in development (NODE_ENV = 'development') the main and    *)
(* the renderer profile both have source maps enabled and neither strips   *)
(* legal comments.  Fails: the renderer profile sets no sourcemap.         *)
(***************************************************************************)
C1_Original ==
  (Loaded /\ SnapDev) =>
    /\ SourceMapOn(config.main)
    /\ SourceMapOn(config.renderer)
    /\ ~StripsLegalComments(config.main)
    /\ ~StripsLegalComments(config.renderer)

(***************************************************************************)
(* C1 amended: in development the main and the preload profile have source *)
(* maps enabled, the renderer profile declares no sourcemap setting, and   *)
(* neither the main nor the renderer profile strips legal comments.        *)
(***************************************************************************)
C1_DevToggles ==
  (Loaded /\ SnapDev) =>
    /\ SourceMapOn(config.main)
    /\ SourceMapOn(config.preload)
    /\ ~SourceMapDeclared(config.renderer)
    /\ ~StripsLegalComments(config.main)
    /\ ~StripsLegalComments(config.renderer)

C1_Witness ==
  /\ Loaded
  /\ SnapDev
  /\ config.main.build.sourcemap
  /\ config.preload.build.sourcemap
  /\ config.renderer.esbuild = {}

(***************************************************************************)
(* C2: in production (NODE_ENV = 'production') the main and the renderer   *)
(* profile strip legal comments and the renderer plugins contain no        *)
(* source-inspection plugin, whatever the visualizer variables hold.       *)
(***************************************************************************)
C2_ProdToggles ==
  (Loaded /\ SnapProd) =>
    /\ StripsLegalComments(config.main)
    /\ StripsLegalComments(config.renderer)
    /\ ~Has(config.renderer.plugins, "CodeInspectorPlugin")

C2_Witness ==
  /\ Loaded
  /\ SnapProd
  /\ SnapFlag("VISUALIZER_MAIN")
  /\ SnapFlag("VISUALIZER_RENDERER")
  /\ Len(config.renderer.plugins) = 3

(***************************************************************************)
(* C3: the renderer plugin sequence is the CSS plugin, the React compiler, *)
(* then the source inspector exactly in development, then the visualizer   *)
(* exactly when the renderer visualizer flag is enabled.  The CSS plugin   *)
(* stands first as the promise of its import: the exported sequence has    *)
(* that promise in the first place, and once it is fulfilled the sequence  *)
(* with the promise replaced by its value is the one stated.               *)
(***************************************************************************)
C3_Tail ==
  << Plugin("react", "tsDecorators", "true") >>
    \o (IF SnapDev
          THEN << Plugin("CodeInspectorPlugin", "bundler", "vite") >>
          ELSE << >>)
    \o (IF SnapFlag("VISUALIZER_RENDERER")
          THEN << Plugin("visualizer", "open", "true") >>
          ELSE << >>)

\* the sequence with a fulfilled promise replaced by the value it holds
Awaited(plugins) ==
  [ i \in 1..Len(plugins) |->
      IF plugins[i].name = "Promise" THEN cssPromise.value[1] ELSE plugins[i] ]

C3_RendererPlugins ==
  Loaded =>
    /\ config.renderer.plugins =
         << Plugin("Promise", "import", "@tailwindcss/vite") >> \o C3_Tail
    /\ cssPromise.state \in {"pending", "fulfilled", "rejected"}
    /\ cssPromise.state = "fulfilled" =>
         Awaited(config.renderer.plugins) =
           << Plugin("tailwindcss", "", "") >> \o C3_Tail

C3_Witness ==
  /\ Loaded
  /\ SnapDev
  /\ SnapFlag("VISUALIZER_RENDERER")
  /\ cssPromise.state = "fulfilled"
  /\ Len(config.renderer.plugins) = 4
  /\ Awaited(config.renderer.plugins)[1].name = "tailwindcss"
  /\ config.renderer.plugins[3].name = "CodeInspectorPlugin"
  /\ config.renderer.plugins[4].name = "visualizer"

(***************************************************************************)
(* C4 as stated: the external list of the main profile holds the three     *)
(* static names and every dependency name and nothing else, each name      *)
(* exactly once.  Fails when a dependency is also a static name: the list  *)
(* is a plain concatenation.                                               *)
(***************************************************************************)
C4_Original ==
  Loaded =>
    LET ext == config.main.build.rollupOptions.external
    IN  /\ { ext[i] : i \in 1..Len(ext) } =
             StaticExternal \cup { pkg[i] : i \in 1..Len(pkg) }
        /\ IsInjective(ext)

(***************************************************************************)
(* C6: the renderer entry set has exactly the five page names, each mapped *)
(* to its own html file under src/renderer, under every snapshot.          *)
(***************************************************************************)
C6_EntrySet ==
  Loaded =>
    LET entries == config.renderer.build.rollupOptions.input
    IN  /\ DOMAIN entries = Pages
        /\ \A n \in Pages :
             entries[n] = <<dirname, "src/renderer/" \o n \o ".html">>

C6_Witness ==
  /\ Loaded
  /\ ~SnapDev
  /\ ~SnapProd
  /\ Cardinality(DOMAIN config.renderer.build.rollupOptions.input) = 5

(***************************************************************************)
(* C7: when NODE_ENV is absent or neither 'development' nor 'production',  *)
(* the configuration is still exported with no source maps, no stripping   *)
(* of legal comments, dependency discovery not disabled and no source      *)
(* inspector; a target whose visualizer variable is absent gets no         *)
(* visualizer.                                                             *)
(***************************************************************************)
C7_OffDefaults ==
  Loaded =>
    /\ ("NODE_ENV" \notin DOMAIN snapshot
          \/ snapshot["NODE_ENV"] \notin {"development", "production"})
         => /\ \A t \in Targets : ~SourceMapOn(config[t])
            /\ ~StripsLegalComments(config.main)
            /\ ~StripsLegalComments(config.renderer)
            /\ \A t \in Targets : ~NoDiscoveryOn(config[t])
            /\ ~Has(config.renderer.plugins, "CodeInspectorPlugin")
    /\ "VISUALIZER_MAIN" \notin DOMAIN snapshot
         => ~Has(config.main.plugins, "visualizer")
    /\ "VISUALIZER_RENDERER" \notin DOMAIN snapshot
         => ~Has(config.renderer.plugins, "visualizer")

C7_Witness ==
  /\ Loaded
  /\ DOMAIN snapshot = {}
  /\ config.main.plugins = << >>
  /\ Len(config.renderer.plugins) = 2
  /\ config.main.build.sourcemap = FALSE

(***************************************************************************)
(* C9: the main plugins are the visualizer alone exactly when the main     *)
(* visualizer flag is enabled and empty otherwise, the preload plugins are *)
(* always the React compiler with decorators alone, and from one           *)
(* evaluation to the next a change of the main flag only leaves the        *)
(* preload and renderer profiles as they were, a change of the renderer    *)
(* flag only leaves the main and preload profiles as they were.            *)
(***************************************************************************)
C9_PluginState ==
  Loaded =>
    /\ config.main.plugins =
         (IF SnapFlag("VISUALIZER_MAIN")
            THEN << Plugin("visualizer", "open", "true") >>
            ELSE << >>)
    /\ config.preload.plugins = << Plugin("react", "tsDecorators", "true") >>

C9_Frame ==
  (Loaded /\ DOMAIN config' # {}) =>
    /\ AgreeExceptOn(snapshot, snapshot', "VISUALIZER_MAIN")
         => /\ config'.preload = config.preload
            /\ config'.renderer = config.renderer
    /\ AgreeExceptOn(snapshot, snapshot', "VISUALIZER_RENDERER")
         => /\ config'.main = config.main
            /\ config'.preload = config.preload

C9_NoLeak == [](C9_PluginState) /\ [][C9_Frame]_vars

C9_Witness ==
  /\ Loaded
  /\ SnapFlag("VISUALIZER_MAIN")
  /\ ~SnapFlag("VISUALIZER_RENDERER")
  /\ Len(config.main.plugins) = 1
  /\ ~Has(config.renderer.plugins, "visualizer")
  /\ env # snapshot
  /\ AgreeExceptOn(env, snapshot, "VISUALIZER_MAIN")

(***************************************************************************)
(* C10 as stated: dependency discovery is disabled exactly in development  *)
(* in the main profile and in the renderer profile alike.  Fails: the      *)
(* renderer profile has no noDiscovery setting.                            *)
(***************************************************************************)
C10_Original ==
  Loaded =>
    /\ NoDiscoveryOn(config.main) <=> SnapDev
    /\ NoDiscoveryOn(config.renderer) <=> SnapDev

(***************************************************************************)
(* C10 amended: dependency discovery is disabled exactly in development in *)
(* the main profile only; the renderer profile carries pre-bundling        *)
(* settings (pyodide excluded, esnext target) without a noDiscovery        *)
(* setting, so discovery is never disabled there.                          *)
(***************************************************************************)
C10_NoDiscovery ==
  Loaded =>
    /\ NoDiscoveryOn(config.main) <=> SnapDev
    /\ DOMAIN config.renderer.optimizeDeps = {"exclude", "esbuildOptions"}
    /\ config.renderer.optimizeDeps.exclude = <<"pyodide">>
    /\ config.renderer.optimizeDeps.esbuildOptions.target = "esnext"

C10_Witness ==
  /\ Loaded
  /\ SnapDev
  /\ config.main.optimizeDeps.noDiscovery
  /\ ~NoDiscoveryOn(config.renderer)

====
